---------------------------- MODULE Spec2Model ----------------------------
(***************************************************************************)
(* eslint-config-functype: the rule-set differ of the list-rules CLI       *)
(* (src/src/cli/list-rules.ts) and the dependency validation run when the  *)
(* recommended profile is loaded (src/src/configs/recommended.ts).         *)
(*                                                                         *)
(* Encoding of JavaScript values.  A string severity is Str(s), a numeric  *)
(* one Num(n); an options value is a Num, a Str, an Obj (its key/value     *)
(* pairs in insertion order) or an Arr.  A rule name is the sequence of    *)
(* its characters, each a one-character string.  A Map and the result of   *)
(* Object.entries are sequences in insertion order.                        *)
(***************************************************************************)
EXTENDS Integers, Sequences, FiniteSets, TLC

VARIABLES
    cmd,             \* what runs: "main" is the CLI before it has read its flags, "help", "diff",
                     \* "check-deps" and "list" are its modes, "load" is the profile load
    args,            \* the flags in process.argv
    ran,             \* the modes of the CLI whose code has run
    distExists,      \* whether the build directory exists
    loadedConfigs,   \* the bundled profiles the rule listing has loaded
    pc,              \* "start" | "profiles" | "compared" | "done"
    locale,          \* the host's collation locale, read by localeCompare
    localConfig,     \* the Config returned by loadLocalESLintConfig
    functypeConfig,  \* the Config returned by loadConfig for a bundled profile
    localRules,      \* extractRules(localConfig)
    functypeRules,   \* extractRules(functypeConfig)
    diffs,           \* <<compareRules(localRules, functypeRules)>>, <<>> before any comparison
    profileIdx,      \* how many bundled profiles runDiffMode has gone through
    registry,        \* the dependency descriptors, in declaration order
    installed,       \* the package names the host environment resolves
    validateEnabled, \* what shouldValidateDependencies() returns
    result,          \* <<the Validation Result>>, <<>> before validation
    validateCalls,   \* how many times validatePeerDependencies was invoked
    warnLog,         \* the lines written with console.warn, in order
    thrown,          \* TRUE when the profile load threw
    exported,        \* TRUE when the profile module exported its rule set
    exitCode         \* the status passed to process.exit, -1 when it was not called

vars == <<cmd, pc, locale, localConfig, functypeConfig, localRules, functypeRules,
          diffs, profileIdx, registry, installed, validateEnabled, result,
          validateCalls, warnLog, thrown, exported, exitCode, args, ran,
          distExists, loadedConfigs>>

diffVars == <<functypeConfig, localRules, functypeRules, diffs, profileIdx>>
depVars == <<result, validateCalls, warnLog, thrown, exported>>
hostVars == <<locale, localConfig, registry, installed, validateEnabled, args, distExists>>
envVars == <<cmd, hostVars>>

(***************************************************************************)
(* Bounds.                                                                 *)
(***************************************************************************)
MaxRules == 2    \* rule declarations per configuration
MaxDeps == 2     \* descriptors in the registry

\* The bundled profiles runDiffMode compares with: Recommended and Strict.
NumProfiles == 2

Range(s) == {s[i] : i \in DOMAIN s}

(***************************************************************************)
(* JavaScript values.                                                      *)
(***************************************************************************)
Str(s) == [t |-> "str", s |-> s]
Num(n) == [t |-> "num", n |-> n]
Obj(kv) == [t |-> "obj", kv |-> kv]
Arr(a) == [t |-> "arr", a |-> a]

(***************************************************************************)
(* Characters of rule names: the UTF-16 code unit of each, its primary     *)
(* collation rank (punctuation before letters, '-' before '@' before '/',  *)
(* a letter and its capital on the same rank) and whether it is a capital. *)
(***************************************************************************)
Alphabet == {"-", "/", "@", "B", "a", "b"}

CodeUnit(c) ==
    CASE c = "-" -> 45
      [] c = "/" -> 47
      [] c = "@" -> 64
      [] c = "B" -> 66
      [] c = "a" -> 97
      [] c = "b" -> 98

PrimaryRank(c) ==
    CASE c = "-" -> 1
      [] c = "@" -> 2
      [] c = "/" -> 3
      [] c = "a" -> 4
      [] c = "b" -> 5
      [] c = "B" -> 5

IsUpper(c) == c = "B"

Locales == {"lowerFirst", "upperFirst"}

\* The rank of a character's case on the tertiary level: lower case first in
\* most locales, capitals first in a locale tailored that way (da, mt).
CaseRank(loc, c) ==
    IF IsUpper(c) THEN (IF loc = "upperFirst" THEN 0 ELSE 2) ELSE 1

\* Lexicographic comparison of two sequences of integers: -1, 0 or 1; a
\* proper prefix comes first.
RECURSIVE SeqCompare(_, _)
SeqCompare(s, t) ==
    IF s = <<>> /\ t = <<>> THEN 0
    ELSE IF s = <<>> THEN -1
    ELSE IF t = <<>> THEN 1
    ELSE IF Head(s) < Head(t) THEN -1
    ELSE IF Head(s) > Head(t) THEN 1
    ELSE SeqCompare(Tail(s), Tail(t))

\* a.localeCompare(b): the primary ranks decide; on a tie, the case ranks.
LocaleCompare(loc, a, b) ==
    LET p == SeqCompare([i \in DOMAIN a |-> PrimaryRank(a[i])],
                        [i \in DOMAIN b |-> PrimaryRank(b[i])])
    IN IF p # 0 THEN p
       ELSE SeqCompare([i \in DOMAIN a |-> CaseRank(loc, a[i])],
                       [i \in DOMAIN b |-> CaseRank(loc, b[i])])

\* The ordinal comparison of two names: by UTF-16 code units.
OrdinalCompare(a, b) ==
    SeqCompare([i \in DOMAIN a |-> CodeUnit(a[i])],
               [i \in DOMAIN b |-> CodeUnit(b[i])])

(***************************************************************************)
(* JSON.stringify of an options value.                                     *)
(***************************************************************************)
RECURSIVE JsonStringify(_)
RECURSIVE JsonMembers(_)
RECURSIVE JsonElements(_)
JsonStringify(v) ==
    CASE v.t = "num" -> ToString(v.n)
      [] v.t = "str" -> "\"" \o v.s \o "\""
      [] v.t = "obj" -> "{" \o JsonMembers(v.kv) \o "}"
      [] v.t = "arr" -> "[" \o JsonElements(v.a) \o "]"

JsonMembers(kv) ==
    IF kv = <<>> THEN ""
    ELSE "\"" \o Head(kv)[1] \o "\":" \o JsonStringify(Head(kv)[2])
         \o (IF Len(kv) > 1 THEN "," ELSE "") \o JsonMembers(Tail(kv))

JsonElements(a) ==
    IF a = <<>> THEN ""
    ELSE JsonStringify(Head(a))
         \o (IF Len(a) > 1 THEN "," ELSE "") \o JsonElements(Tail(a))

(***************************************************************************)
(* formatSeverity: the level a severity stands for.                        *)
(***************************************************************************)
severityMap ==
    [x \in {"0", "1", "2", "off", "warn", "error"} |->
        CASE x \in {"0", "off"} -> "off"
          [] x \in {"1", "warn"} -> "warn"
          [] x \in {"2", "error"} -> "error"]

\* String(severity)
StringOf(v) == IF v.t = "num" THEN ToString(v.n) ELSE v.s

formatSeverity(severity) ==
    IF StringOf(severity) \in DOMAIN severityMap
    THEN severityMap[StringOf(severity)]
    ELSE StringOf(severity)

(***************************************************************************)
(* Map<string, RuleData>: a sequence of <<key, value>> in insertion order. *)
(***************************************************************************)
MapKeys(m) == [i \in DOMAIN m |-> m[i][1]]

MapHas(m, k) == \E i \in DOMAIN m : m[i][1] = k

MapGet(m, k) == m[CHOOSE i \in DOMAIN m : m[i][1] = k][2]

\* Map.prototype.set: a present key keeps its place and takes the new value.
MapSet(m, k, v) ==
    IF MapHas(m, k)
    THEN [i \in DOMAIN m |-> IF m[i][1] = k THEN <<k, v>> ELSE m[i]]
    ELSE Append(m, <<k, v>>)

\* new Set([...]): the first occurrence of each element, in order.
RECURSIVE Dedupe(_)
Dedupe(s) ==
    IF s = <<>> THEN <<>>
    ELSE LET init == Dedupe(SubSeq(s, 1, Len(s) - 1))
             last == s[Len(s)]
         IN IF last \in Range(init) THEN init ELSE Append(init, last)

StartsWith(s, prefix) ==
    Len(s) >= Len(prefix) /\ SubSeq(s, 1, Len(prefix)) = prefix

getRuleSource(ruleName) ==
    IF StartsWith(ruleName, <<"f", "u", "n", "c", "t", "i", "o", "n", "a", "l", "/">>)
    THEN "eslint-plugin-functional"
    ELSE IF StartsWith(ruleName, <<"@", "t", "y", "p", "e", "s", "c", "r", "i", "p", "t",
                                   "-", "e", "s", "l", "i", "n", "t", "/">>)
    THEN "@typescript-eslint/eslint-plugin"
    ELSE "eslint (core)"

(***************************************************************************)
(* A RuleConfig is a bare severity, [isArray |-> FALSE, severity |-> s],   *)
(* or an array, [isArray |-> TRUE, items |-> <<s, option, ...>>].  A       *)
(* Config is [hasRules |-> b, rules |-> the entries of its rules object].  *)
(***************************************************************************)
Bare(sev) == [isArray |-> FALSE, severity |-> sev]
Wrapped(items) == [isArray |-> TRUE, items |-> items]

\* Mutant of ruleDataOf: the options of an array keep its first element (the
\* slice(1) is lost).
ruleDataOf_NoSlice(ruleName, ruleConfig) ==
    [severity |-> IF ruleConfig.isArray THEN ruleConfig.items[1] ELSE ruleConfig.severity,
     options  |-> IF ruleConfig.isArray THEN ruleConfig.items ELSE <<>>,
     source   |-> getRuleSource(ruleName)]

ruleDataOf(ruleName, ruleConfig) ==
    [severity |-> IF ruleConfig.isArray THEN ruleConfig.items[1] ELSE ruleConfig.severity,
     options  |-> IF ruleConfig.isArray THEN Tail(ruleConfig.items) ELSE <<>>,
     source   |-> getRuleSource(ruleName)]

RECURSIVE setAll(_, _)
setAll(rules, entries) ==
    IF entries = <<>> THEN rules
    ELSE setAll(MapSet(rules, Head(entries)[1],
                       ruleDataOf(Head(entries)[1], Head(entries)[2])),
                Tail(entries))

extractRules(config) ==
    IF config.hasRules THEN setAll(<<>>, config.rules) ELSE <<>>

(***************************************************************************)
(* compareRules.                                                           *)
(***************************************************************************)
optionsDifferent(localOptions, functypeOptions) ==
    JsonStringify(Arr(localOptions)) # JsonStringify(Arr(functypeOptions))

severityDifferent(localSeverity, functypeSeverity) ==
    localSeverity # functypeSeverity

\* Mutant of diffOf: the labels of the two one-sided cases are exchanged.
diffOf_SwappedLabels(ruleName, lRules, fRules) ==
    IF ~MapHas(lRules, ruleName)
    THEN LET functypeRule == MapGet(fRules, ruleName)
         IN [name |-> ruleName, status |-> "removed",
             functypeSeverity |-> functypeRule.severity,
             functypeOptions |-> functypeRule.options]
    ELSE IF ~MapHas(fRules, ruleName)
    THEN LET localRule == MapGet(lRules, ruleName)
         IN [name |-> ruleName, status |-> "added",
             localSeverity |-> localRule.severity,
             localOptions |-> localRule.options]
    ELSE LET localRule == MapGet(lRules, ruleName)
             functypeRule == MapGet(fRules, ruleName)
         IN IF \/ severityDifferent(localRule.severity, functypeRule.severity)
               \/ optionsDifferent(localRule.options, functypeRule.options)
            THEN [name |-> ruleName, status |-> "different",
                  localSeverity |-> localRule.severity,
                  functypeSeverity |-> functypeRule.severity,
                  localOptions |-> localRule.options,
                  functypeOptions |-> functypeRule.options]
            ELSE [name |-> ruleName, status |-> "same",
                  localSeverity |-> localRule.severity,
                  functypeSeverity |-> functypeRule.severity]

diffOf(ruleName, lRules, fRules) ==
    IF ~MapHas(lRules, ruleName)
    THEN LET functypeRule == MapGet(fRules, ruleName)
         IN [name |-> ruleName, status |-> "added",
             functypeSeverity |-> functypeRule.severity,
             functypeOptions |-> functypeRule.options]
    ELSE IF ~MapHas(fRules, ruleName)
    THEN LET localRule == MapGet(lRules, ruleName)
         IN [name |-> ruleName, status |-> "removed",
             localSeverity |-> localRule.severity,
             localOptions |-> localRule.options]
    ELSE LET localRule == MapGet(lRules, ruleName)
             functypeRule == MapGet(fRules, ruleName)
         IN IF \/ severityDifferent(localRule.severity, functypeRule.severity)
               \/ optionsDifferent(localRule.options, functypeRule.options)
            THEN [name |-> ruleName, status |-> "different",
                  localSeverity |-> localRule.severity,
                  functypeSeverity |-> functypeRule.severity,
                  localOptions |-> localRule.options,
                  functypeOptions |-> functypeRule.options]
            ELSE [name |-> ruleName, status |-> "same",
                  localSeverity |-> localRule.severity,
                  functypeSeverity |-> functypeRule.severity]

\* Mutant of compareNames: the operands of localeCompare are exchanged.
compareNames_Reversed(loc, a, b) == LocaleCompare(loc, b.name, a.name)

\* The comparator handed to sort.
compareNames(loc, a, b) == LocaleCompare(loc, a.name, b.name)

\* Array.prototype.sort is stable: an element goes after those that do not
\* compare greater than it.
RECURSIVE insertSorted(_, _, _)
insertSorted(loc, sorted, d) ==
    IF sorted = <<>> THEN <<d>>
    ELSE IF compareNames(loc, Head(sorted), d) <= 0
    THEN <<Head(sorted)>> \o insertSorted(loc, Tail(sorted), d)
    ELSE <<d>> \o sorted

RECURSIVE sortDiffs(_, _)
sortDiffs(loc, ds) ==
    IF ds = <<>> THEN <<>>
    ELSE insertSorted(loc, sortDiffs(loc, SubSeq(ds, 1, Len(ds) - 1)), ds[Len(ds)])

\* Mutant of allRulesOf: an array of the two key lists, not a Set of them.
allRulesOf_NoSet(lRules, fRules) == MapKeys(lRules) \o MapKeys(fRules)

\* Mutant of allRulesOf: the keys of the reference map are left out.
allRulesOf_LocalOnly(lRules, fRules) == MapKeys(lRules)

allRulesOf(lRules, fRules) ==
    Dedupe(MapKeys(lRules) \o MapKeys(fRules))

compareRules(loc, lRules, fRules) ==
    LET allRules == allRulesOf(lRules, fRules)
    IN sortDiffs(loc, [i \in DOMAIN allRules |->
                          diffOf(allRules[i], lRules, fRules)])

\* Mutant of compareRulesCall: each reference rule that was matched with a
\* local rule is deleted from the reference map.
compareRulesCall_DeletesMatched(loc, lRules, fRules) ==
    [returned |-> compareRules(loc, lRules, fRules),
     lRules   |-> lRules,
     fRules   |-> SelectSeq(fRules, LAMBDA e : ~MapHas(lRules, e[1]))]

\* A call of compareRules: what it returns and what it leaves in the two
\* maps it was given.  The function reads them with keys() and get() only and
\* sorts the array it built itself.
compareRulesCall(loc, lRules, fRules) ==
    [returned |-> compareRules(loc, lRules, fRules),
     lRules   |-> lRules,
     fRules   |-> fRules]

(***************************************************************************)
(* The dependency validator.  A descriptor is [name, required]; the        *)
(* environment is the set of package names that resolve.                   *)
(***************************************************************************)
isAvailable(env, d) == d.name \in env

warningFor(d) == "Optional dependency " \o d.name \o " is not installed"

\* Mutant of validatePeerDependencies: any missing descriptor, required or
\* not, makes the result invalid.
validatePeerDependencies_AnyMissing(reg, env) ==
    LET available == SelectSeq(reg, LAMBDA d : isAvailable(env, d))
        missing == SelectSeq(reg, LAMBDA d : ~isAvailable(env, d))
        missingOptional == SelectSeq(missing, LAMBDA d : ~d.required)
    IN [isValid   |-> missing = <<>>,
        available |-> available,
        missing   |-> missing,
        warnings  |-> [i \in DOMAIN missingOptional |-> warningFor(missingOptional[i])]]

\* Mutant of validatePeerDependencies: a warning is made for every missing
\* descriptor, the required ones too.
validatePeerDependencies_WarnAll(reg, env) ==
    LET available == SelectSeq(reg, LAMBDA d : isAvailable(env, d))
        missing == SelectSeq(reg, LAMBDA d : ~isAvailable(env, d))
    IN [isValid   |-> \A i \in DOMAIN missing : ~missing[i].required,
        available |-> available,
        missing   |-> missing,
        warnings  |-> [i \in DOMAIN missing |-> warningFor(missing[i])]]

validatePeerDependencies(reg, env) ==
    LET available == SelectSeq(reg, LAMBDA d : isAvailable(env, d))
        missing == SelectSeq(reg, LAMBDA d : ~isAvailable(env, d))
        missingOptional == SelectSeq(missing, LAMBDA d : ~d.required)
    IN [isValid   |-> \A i \in DOMAIN missing : ~missing[i].required,
        available |-> available,
        missing   |-> missing,
        warnings  |-> [i \in DOMAIN missingOptional |-> warningFor(missingOptional[i])]]

(***************************************************************************)
(* The top level of the recommended profile module: what a load does with  *)
(* the answer of shouldValidateDependencies() and the registry.            *)
(***************************************************************************)
warnLines(warnings) ==
    IF Len(warnings) > 0
    THEN <<"\n eslint-config-functype warnings:">>
         \o [i \in DOMAIN warnings |-> "   " \o warnings[i]]
         \o <<"">>
    ELSE <<>>

\* Mutant of loadRecommended: the warnings are logged before the result is
\* tested.
loadRecommended_WarnFirst(enabled, reg, env) ==
    IF enabled
    THEN LET res == validatePeerDependencies(reg, env)
         IN IF ~res.isValid
            THEN [result |-> <<res>>, calls |-> 1, thrown |-> TRUE,
                  warnLog |-> warnLines(res.warnings), exported |-> FALSE]
            ELSE [result |-> <<res>>, calls |-> 1, thrown |-> FALSE,
                  warnLog |-> warnLines(res.warnings), exported |-> TRUE]
    ELSE [result |-> <<>>, calls |-> 0, thrown |-> FALSE,
          warnLog |-> <<>>, exported |-> TRUE]

loadRecommended(enabled, reg, env) ==
    IF enabled
    THEN LET res == validatePeerDependencies(reg, env)
         IN IF ~res.isValid
            THEN [result |-> <<res>>, calls |-> 1, thrown |-> TRUE,
                  warnLog |-> <<>>, exported |-> FALSE]
            ELSE [result |-> <<res>>, calls |-> 1, thrown |-> FALSE,
                  warnLog |-> warnLines(res.warnings), exported |-> TRUE]
    ELSE [result |-> <<>>, calls |-> 0, thrown |-> FALSE,
          warnLog |-> <<>>, exported |-> TRUE]

(***************************************************************************)
(* The inputs.                                                             *)
(***************************************************************************)
NameScoped == <<"@", "a", "/", "b">>
NameUpper == <<"a", "-", "B">>
NameLower == <<"a", "-", "b">>
Names == {NameScoped, NameUpper, NameLower}

OptA1 == Obj(<< <<"a", Num(1)>> >>)
OptA2 == Obj(<< <<"a", Num(2)>> >>)
OptAB == Obj(<< <<"a", Num(1)>>, <<"b", Num(2)>> >>)
OptBA == Obj(<< <<"b", Num(2)>>, <<"a", Num(1)>> >>)

\* The declarations a configuration may hold: every name with the plain
\* "error", and one name with each form of declaration.
PlainConfigs == {Bare(Str("error"))}
FormConfigs ==
    {Bare(Str("error")), Bare(Num(2)), Bare(Str("warn")), Bare(Num(1)),
     Wrapped(<<Str("error")>>),
     Wrapped(<<Str("error"), OptA1>>), Wrapped(<<Str("error"), OptA2>>),
     Wrapped(<<Str("error"), OptAB>>), Wrapped(<<Str("error"), OptBA>>),
     Wrapped(<<Str("error"), OptA1, OptA2>>), Wrapped(<<Str("error"), OptA2, OptA1>>)}
Declarations ==
    (Names \X PlainConfigs) \cup ({NameLower} \X FormConfigs)

\* The entries of a rules object: at most MaxRules declarations, no name twice.
RuleEntries ==
    {e \in UNION {[1..n -> Declarations] : n \in 0..MaxRules} :
        \A i, j \in DOMAIN e : i # j => e[i][1] # e[j][1]}

NullConfig == [loaded |-> FALSE, hasRules |-> FALSE, rules |-> <<>>]
Configs ==
    {[loaded |-> TRUE, hasRules |-> TRUE, rules |-> e] : e \in RuleEntries}
    \cup {[loaded |-> TRUE, hasRules |-> FALSE, rules |-> <<>>]}
ConfigsOrNull == Configs \cup {NullConfig}

DepNames == {"pkg-required", "pkg-optional", "pkg-extra"}
Descriptors == [name : DepNames, required : BOOLEAN]
Registries ==
    {r \in UNION {[1..n -> Descriptors] : n \in 0..MaxDeps} :
        \A i, j \in DOMAIN r : i # j => r[i].name # r[j].name}

(***************************************************************************)
(* main's flags and the mode they select.  --usage and --verbose select no *)
(* mode and are left out.                                                  *)
(***************************************************************************)
Flags == {"--help", "-h", "--diff", "--check-deps", "--check"}

showHelp(a) == "--help" \in a \/ "-h" \in a
diffMode(a) == "--diff" \in a
checkDeps(a) == "--check-deps" \in a \/ "--check" \in a

\* Mutant of mainMode: the dependency check is tested before the diff mode.
mainMode_CheckFirst(a) ==
    IF showHelp(a) THEN "help"
    ELSE IF checkDeps(a) THEN "check-deps"
    ELSE IF diffMode(a) THEN "diff"
    ELSE "list"

mainMode(a) ==
    IF showHelp(a) THEN "help"
    ELSE IF diffMode(a) THEN "diff"
    ELSE IF checkDeps(a) THEN "check-deps"
    ELSE "list"

ProfileNames == <<"Recommended", "Strict">>
ProfileIndex(n) == CHOOSE i \in DOMAIN ProfileNames : ProfileNames[i] = n

(***************************************************************************)
(* The program.                                                            *)
(***************************************************************************)
Init ==
    /\ pc = "start"
    /\ cmd \in {"main", "load"}
    /\ args \in (IF cmd = "main" THEN SUBSET Flags ELSE {{}})
    \* Only the inputs that the mode main will take reads are drawn; the
    \* others are left empty.
    /\ LET mode == IF cmd = "main" THEN mainMode(args) ELSE "load"
       IN /\ locale \in (IF mode = "diff" THEN Locales ELSE {"lowerFirst"})
          /\ localConfig \in (IF mode = "diff" THEN ConfigsOrNull ELSE {NullConfig})
          /\ registry \in (IF mode \in {"check-deps", "load"} THEN Registries ELSE {<<>>})
          /\ installed \in (IF mode \in {"check-deps", "load"} THEN SUBSET DepNames ELSE {{}})
          /\ validateEnabled \in (IF mode = "load" THEN BOOLEAN ELSE {FALSE})
          /\ distExists \in (IF mode = "list" THEN BOOLEAN ELSE {TRUE})
    /\ functypeConfig = NullConfig
    /\ localRules = <<>>
    /\ functypeRules = <<>>
    /\ diffs = <<>>
    /\ profileIdx = 0
    /\ result = <<>>
    /\ validateCalls = 0
    /\ warnLog = <<>>
    /\ thrown = FALSE
    /\ exported = FALSE
    /\ exitCode = -1
    /\ ran = {}
    /\ loadedConfigs = <<>>

\* main up to its choice of a mode: the flags are read; with a help flag the
\* help is printed and main returns.
Main ==
    /\ cmd = "main" /\ pc = "start"
    /\ cmd' = mainMode(args)
    /\ IF mainMode(args) = "help"
       THEN /\ ran' = ran \cup {"help"}
            /\ pc' = "done"
       ELSE UNCHANGED <<ran, pc>>
    /\ UNCHANGED <<hostVars, diffVars, depVars, exitCode, loadedConfigs>>

\* main's default mode, the rule listing: without the build directory the
\* process exits with status 1, otherwise each bundled profile that loads is
\* listed.
ListRules ==
    /\ cmd = "list" /\ pc = "start"
    /\ IF ~distExists
       THEN /\ exitCode' = 1
            /\ UNCHANGED loadedConfigs
       ELSE /\ \E loads \in [1..NumProfiles -> BOOLEAN] :
                 loadedConfigs' = SelectSeq(ProfileNames, LAMBDA n : loads[ProfileIndex(n)])
            /\ UNCHANGED exitCode
    /\ ran' = ran \cup {"list"}
    /\ pc' = "done"
    /\ UNCHANGED <<envVars, diffVars, depVars>>

\* runDiffMode up to its loop: the local configuration is loaded and its
\* rules extracted, or the process exits with status 1.
DiffLoadLocal ==
    /\ cmd = "diff" /\ pc = "start"
    /\ IF ~localConfig.loaded
       THEN /\ exitCode' = 1
            /\ pc' = "done"
            /\ UNCHANGED localRules
       ELSE /\ localRules' = extractRules(localConfig)
            /\ pc' = "profiles"
            /\ UNCHANGED exitCode
    /\ ran' = ran \cup {"diff"}
    /\ UNCHANGED <<functypeConfig, functypeRules, diffs, profileIdx>>
    /\ UNCHANGED <<envVars, depVars, loadedConfigs>>

\* The body of runDiffMode's loop for one bundled profile: the profile is
\* loaded and, when that succeeds, its rules are extracted and compared with
\* the local rules.
DiffProfile ==
    /\ cmd = "diff" /\ pc = "profiles"
    /\ \E config \in ConfigsOrNull :
        /\ functypeConfig' = config
        /\ IF config.loaded
           THEN LET call == compareRulesCall(locale, localRules, extractRules(config))
                IN /\ diffs' = <<call.returned>>
                   /\ localRules' = call.lRules
                   /\ functypeRules' = call.fRules
           ELSE UNCHANGED <<localRules, functypeRules, diffs>>
    /\ pc' = "compared"
    /\ UNCHANGED <<profileIdx, exitCode, ran>>
    /\ UNCHANGED <<envVars, depVars, loadedConfigs>>

\* The loop goes on to the next profile: the constants of its body
\* (functypeConfig, functypeRules, diffs) go out of scope.
DiffNextProfile ==
    /\ cmd = "diff" /\ pc = "compared"
    /\ functypeConfig' = NullConfig
    /\ functypeRules' = <<>>
    /\ diffs' = <<>>
    /\ profileIdx' = profileIdx + 1
    /\ pc' = IF profileIdx + 1 = NumProfiles THEN "done" ELSE "profiles"
    /\ UNCHANGED <<localRules, exitCode, ran>>
    /\ UNCHANGED <<envVars, depVars, loadedConfigs>>

\* main's dependency check.
CheckDeps ==
    /\ cmd = "check-deps" /\ pc = "start"
    /\ LET res == validatePeerDependencies(registry, installed)
       IN /\ result' = <<res>>
          /\ exitCode' = IF ~res.isValid THEN 1 ELSE exitCode
    /\ validateCalls' = validateCalls + 1
    /\ ran' = ran \cup {"check-deps"}
    /\ pc' = "done"
    /\ UNCHANGED <<warnLog, thrown, exported>>
    /\ UNCHANGED <<envVars, diffVars, loadedConfigs>>

\* The recommended profile module is loaded.
LoadRecommended ==
    /\ cmd = "load" /\ pc = "start"
    /\ LET out == loadRecommended(validateEnabled, registry, installed)
       IN /\ result' = out.result
          /\ validateCalls' = validateCalls + out.calls
          /\ thrown' = out.thrown
          /\ warnLog' = warnLog \o out.warnLog
          /\ exported' = out.exported
    /\ pc' = "done"
    /\ UNCHANGED <<exitCode, ran>>
    /\ UNCHANGED <<envVars, diffVars, loadedConfigs>>

Next ==
    \/ Main
    \/ ListRules
    \/ DiffLoadLocal
    \/ DiffProfile
    \/ DiffNextProfile
    \/ CheckDeps
    \/ LoadRecommended

Spec == Init /\ [][Next]_vars

(***************************************************************************)
(* Properties of compareRules.  They are stated of the state in which      *)
(* runDiffMode has just compared the local rules with a loaded profile.    *)
(***************************************************************************)
Compared == cmd = "diff" /\ pc = "compared" /\ functypeConfig.loaded

Statuses == {"added", "removed", "different", "same"}

KeySet(m) == Range(MapKeys(m))

InBoth(name) == MapHas(localRules, name) /\ MapHas(functypeRules, name)

\* Deep equality by value: objects by their key/value content whatever the
\* order of their keys, arrays by position.
RECURSIVE DeepEqual(_, _)
DeepEqual(v, w) ==
    /\ v.t = w.t
    /\ CASE v.t = "num" -> v.n = w.n
         [] v.t = "str" -> v.s = w.s
         [] v.t = "arr" ->
                /\ Len(v.a) = Len(w.a)
                /\ \A i \in DOMAIN v.a : DeepEqual(v.a[i], w.a[i])
         [] v.t = "obj" ->
                /\ {e[1] : e \in Range(v.kv)} = {e[1] : e \in Range(w.kv)}
                /\ \A e \in Range(v.kv) : \A f \in Range(w.kv) :
                       e[1] = f[1] => DeepEqual(e[2], f[2])

\* C1: the output of compareRules holds every rule name of
\* keys(local) \cup keys(reference) exactly once and no other name, and every
\* entry has one status out of added, removed, different, same.
C1_UnionOnce ==
    Compared =>
        LET D == diffs[1]
        IN /\ {D[i].name : i \in DOMAIN D} = KeySet(localRules) \cup KeySet(functypeRules)
           /\ \A i, j \in DOMAIN D : D[i].name = D[j].name => i = j
           /\ \A i \in DOMAIN D : D[i].status \in Statuses

C1_Witness ==
    /\ Compared
    /\ Len(diffs[1]) = 3
    /\ \E i \in DOMAIN diffs[1] : InBoth(diffs[1][i].name)
    /\ \E i \in DOMAIN diffs[1] : ~MapHas(localRules, diffs[1][i].name)
    /\ \E i \in DOMAIN diffs[1] : ~MapHas(functypeRules, diffs[1][i].name)

\* C2: a rule present in both maps whose severities are synonyms of the same
\* level (0/off, 1/warn, 2/error) and whose options are identical is
\* classified 'same'.
C2_SynonymsSame ==
    Compared =>
        \A i \in DOMAIN diffs[1] :
            LET name == diffs[1][i].name
            IN (/\ InBoth(name)
                /\ formatSeverity(MapGet(localRules, name).severity)
                     = formatSeverity(MapGet(functypeRules, name).severity)
                /\ MapGet(localRules, name).options = MapGet(functypeRules, name).options)
               => diffs[1][i].status = "same"

\* C3, as claimed: the output is sorted ascending by rule name under the
\* ordinal (code unit) comparison of strings.
C3_OrdinalSorted ==
    Compared =>
        \A i \in DOMAIN diffs[1] : \A j \in DOMAIN diffs[1] :
            i < j => OrdinalCompare(diffs[1][i].name, diffs[1][j].name) <= 0

\* C3, as amended: the output is sorted ascending by rule name under
\* localeCompare in the host's locale.
C3_LocaleSorted ==
    Compared =>
        \A i \in DOMAIN diffs[1] : \A j \in DOMAIN diffs[1] :
            i < j => LocaleCompare(locale, diffs[1][i].name, diffs[1][j].name) <= 0

C3_Witness ==
    /\ Compared
    /\ Len(diffs[1]) = 3
    /\ \E i \in DOMAIN diffs[1] : \E j \in DOMAIN diffs[1] :
           /\ i < j
           /\ LocaleCompare(locale, diffs[1][i].name, diffs[1][j].name) < 0
           /\ OrdinalCompare(diffs[1][i].name, diffs[1][j].name) > 0

\* C4: a rule name present in exactly one map is 'added' iff it is absent from
\* local and present in reference and 'removed' iff it is present in local and
\* absent from reference; the entry carries the severity and options of the
\* side that declares the rule and no field of the other side.
C4_AddedRemoved ==
    Compared =>
        \A i \in DOMAIN diffs[1] :
            LET d == diffs[1][i]
            IN /\ d.status = "added"
                    <=> (~MapHas(localRules, d.name) /\ MapHas(functypeRules, d.name))
               /\ d.status = "removed"
                    <=> (MapHas(localRules, d.name) /\ ~MapHas(functypeRules, d.name))
               /\ d.status = "added" =>
                    /\ DOMAIN d = {"name", "status", "functypeSeverity", "functypeOptions"}
                    /\ d.functypeSeverity = MapGet(functypeRules, d.name).severity
                    /\ d.functypeOptions = MapGet(functypeRules, d.name).options
               /\ d.status = "removed" =>
                    /\ DOMAIN d = {"name", "status", "localSeverity", "localOptions"}
                    /\ d.localSeverity = MapGet(localRules, d.name).severity
                    /\ d.localOptions = MapGet(localRules, d.name).options

C4_Witness ==
    /\ Compared
    /\ \E i \in DOMAIN diffs[1] :
           diffs[1][i].status = "added" /\ diffs[1][i].functypeOptions # <<>>
    /\ \E i \in DOMAIN diffs[1] : diffs[1][i].status = "removed"

\* Order-sensitive deep equality of two options sequences.
OptionsEqual(a, b) == DeepEqual(Arr(a), Arr(b))

\* C5: a rule name present in both maps is 'same' iff the normalized
\* severities are identical and the options sequences are equal, and
\* 'different' otherwise; a 'different' entry carries both sides' severity and
\* options.
C5_SameOrDifferent ==
    Compared =>
        \A i \in DOMAIN diffs[1] :
            LET d == diffs[1][i]
                l == MapGet(localRules, d.name)
                f == MapGet(functypeRules, d.name)
            IN InBoth(d.name) =>
                /\ d.status \in {"same", "different"}
                /\ d.status = "same"
                      <=> /\ formatSeverity(l.severity) = formatSeverity(f.severity)
                          /\ OptionsEqual(l.options, f.options)
                /\ d.status = "different" =>
                      /\ d.localSeverity = l.severity
                      /\ d.functypeSeverity = f.severity
                      /\ d.localOptions = l.options
                      /\ d.functypeOptions = f.options

\* The entry of compareRules(reference, local) that mirrors an entry of
\* compareRules(local, reference).
Mirror(d) ==
    CASE d.status = "added" ->
            [name |-> d.name, status |-> "removed",
             localSeverity |-> d.functypeSeverity, localOptions |-> d.functypeOptions]
      [] d.status = "removed" ->
            [name |-> d.name, status |-> "added",
             functypeSeverity |-> d.localSeverity, functypeOptions |-> d.localOptions]
      [] d.status = "different" ->
            [name |-> d.name, status |-> "different",
             localSeverity |-> d.functypeSeverity, functypeSeverity |-> d.localSeverity,
             localOptions |-> d.functypeOptions, functypeOptions |-> d.localOptions]
      [] d.status = "same" ->
            [name |-> d.name, status |-> "same",
             localSeverity |-> d.functypeSeverity, functypeSeverity |-> d.localSeverity]

\* C6: compareRules(B, A) has the names of compareRules(A, B) in the same
\* order, with 'added' and 'removed' swapped, 'same' and 'different' kept, and
\* the fields of the two sides exchanged.
C6_Symmetry ==
    Compared =>
        compareRules(locale, functypeRules, localRules)
            = [i \in DOMAIN diffs[1] |-> Mirror(diffs[1][i])]

C6_Witness ==
    /\ Compared
    /\ \E i \in DOMAIN diffs[1] : diffs[1][i].status = "added"
    /\ \E i \in DOMAIN diffs[1] : diffs[1][i].status = "removed"
    /\ \E i \in DOMAIN diffs[1] :
           /\ diffs[1][i].status = "different"
           /\ diffs[1][i].localOptions # diffs[1][i].functypeOptions

\* The declaration of a rule name in the entries of a rules object.
DeclOf(config, name) ==
    config.rules[CHOOSE i \in DOMAIN config.rules : config.rules[i][1] = name][2]

Declares(config, name) ==
    config.hasRules /\ \E i \in DOMAIN config.rules : config.rules[i][1] = name

\* One side declares the rule with a bare severity, the other as the
\* one-element array of that severity.
BareAgainstArray(name) ==
    /\ Declares(localConfig, name) /\ Declares(functypeConfig, name)
    /\ \E c \in {localConfig, functypeConfig} : \E w \in {localConfig, functypeConfig} :
          /\ ~DeclOf(c, name).isArray
          /\ DeclOf(w, name).isArray
          /\ DeclOf(w, name).items = <<DeclOf(c, name).severity>>

\* C7: a rule declared with a bare severity is extracted to the same severity
\* and the same empty options as the rule declared as [severity], and the two
\* declarations compare as 'same'.
C7_BareIsArrayOfOne ==
    Compared =>
        \A i \in DOMAIN diffs[1] :
            BareAgainstArray(diffs[1][i].name) =>
                /\ MapGet(localRules, diffs[1][i].name).severity
                     = MapGet(functypeRules, diffs[1][i].name).severity
                /\ MapGet(localRules, diffs[1][i].name).options = <<>>
                /\ MapGet(functypeRules, diffs[1][i].name).options = <<>>
                /\ diffs[1][i].status = "same"

C7_Witness ==
    /\ Compared
    /\ \E i \in DOMAIN diffs[1] :
           /\ BareAgainstArray(diffs[1][i].name)
           /\ ~DeclOf(localConfig, diffs[1][i].name).isArray
           /\ diffs[1][i].status = "same"

\* C8: the options of a rule present in both maps are treated as equal iff
\* they have the same length and their elements are pairwise structurally
\* equal (records by key/value content, sequences by position).
C8_OptionsDeepEqual ==
    Compared =>
        \A i \in DOMAIN diffs[1] :
            LET name == diffs[1][i].name
            IN InBoth(name) =>
                (optionsDifferent(MapGet(localRules, name).options,
                                  MapGet(functypeRules, name).options)
                   <=> ~OptionsEqual(MapGet(localRules, name).options,
                                     MapGet(functypeRules, name).options))

(***************************************************************************)
(* Properties of the Validation Result and of the profile load.            *)
(***************************************************************************)
DescriptorNames(ds) == {ds[i].name : i \in DOMAIN ds}

\* C9: the names in available and in missing are disjoint, hold no
\* duplicates and together are the names of the registry; isValid is true iff
\* no descriptor with required = true is in missing.
C9_Partition ==
    result # <<>> =>
        LET r == result[1]
        IN /\ DescriptorNames(r.available) \cap DescriptorNames(r.missing) = {}
           /\ \A i, j \in DOMAIN r.available :
                  r.available[i].name = r.available[j].name => i = j
           /\ \A i, j \in DOMAIN r.missing :
                  r.missing[i].name = r.missing[j].name => i = j
           /\ DescriptorNames(r.available) \cup DescriptorNames(r.missing)
                  = DescriptorNames(registry)
           /\ Range(r.available) \cup Range(r.missing) = Range(registry)
           /\ r.isValid <=> ~\E i \in DOMAIN r.missing : r.missing[i].required

C9_Witness ==
    /\ cmd = "check-deps" /\ pc = "done"
    /\ Len(result[1].available) = 1
    /\ Len(result[1].missing) = 1
    /\ ~result[1].missing[1].required
    /\ result[1].isValid

\* The places in the warning log of the line written for a warning.
LinesOf(warning) == {i \in DOMAIN warnLog : warnLog[i] = "   " \o warning}

\* C10: the load aborts iff validation is enabled and the result is not valid,
\* and then nothing is logged and no rule set is exported; with a valid result
\* the load completes and logs every warning once, in order; with validation
\* disabled validatePeerDependencies is not invoked and the load completes
\* without throwing or logging.
C10_LoadOutcome ==
    (cmd = "load" /\ pc = "done") =>
        /\ thrown <=> (validateEnabled /\ result # <<>> /\ ~result[1].isValid)
        /\ thrown => (warnLog = <<>> /\ ~exported)
        /\ ~thrown => exported
        /\ (validateEnabled /\ ~thrown) =>
              /\ validateCalls = 1
              /\ \A i \in DOMAIN result[1].warnings :
                     Cardinality(LinesOf(result[1].warnings[i])) = 1
              /\ \A i, j \in DOMAIN result[1].warnings :
                     i < j => \A m \in LinesOf(result[1].warnings[i]) :
                                  \A n \in LinesOf(result[1].warnings[j]) : m < n
              /\ result[1].warnings = <<>> => warnLog = <<>>
        /\ ~validateEnabled =>
              (validateCalls = 0 /\ result = <<>> /\ ~thrown /\ warnLog = <<>>)

C10_Witness ==
    /\ cmd = "load" /\ pc = "done"
    /\ thrown
    /\ result[1].warnings # <<>>
    /\ warnLog = <<>>

\* The place of a descriptor in the registry.
PlaceOf(d) == CHOOSE i \in DOMAIN registry : registry[i] = d

\* A sequence of descriptors follows the declaration order of the registry.
InRegistryOrder(ds) ==
    /\ \A i \in DOMAIN ds : ds[i] \in Range(registry)
    /\ \A i, j \in DOMAIN ds : i < j => PlaceOf(ds[i]) < PlaceOf(ds[j])

\* C11: warnings holds exactly one entry for each missing descriptor with
\* required = false and none for a missing required descriptor; available,
\* missing and warnings each follow the declaration order of the registry.
C11_WarningsPerOptional ==
    result # <<>> =>
        LET r == result[1]
            optional == SelectSeq(r.missing, LAMBDA d : ~d.required)
        IN /\ InRegistryOrder(r.available)
           /\ InRegistryOrder(r.missing)
           /\ Len(r.warnings) = Len(optional)
           /\ \A i \in DOMAIN r.warnings : r.warnings[i] = warningFor(optional[i])
           /\ \A i \in DOMAIN r.missing :
                  r.missing[i].required =>
                      \A j \in DOMAIN r.warnings :
                          r.warnings[j] # warningFor(r.missing[i])

\* The registry [pkg-required (required), pkg-optional (optional)] with
\* neither installed.
C11_Witness ==
    /\ registry = <<[name |-> "pkg-required", required |-> TRUE],
                    [name |-> "pkg-optional", required |-> FALSE]>>
    /\ installed = {}
    /\ result # <<>>
    /\ ~result[1].isValid
    /\ result[1].missing = registry
    /\ result[1].warnings = <<warningFor(registry[2])>>

HelpFlag == "--help" \in args \/ "-h" \in args
DiffFlag == "--diff" \in args
CheckFlag == "--check-deps" \in args \/ "--check" \in args

\* C13: main runs exactly one mode, chosen by precedence over the flags
\* present: help before diff, diff before the dependency check, the dependency
\* check before the rule listing; in the dependency check the process exits
\* with status 1 iff the result is not valid; in diff mode it exits with
\* status 1 without comparing anything when the local configuration cannot be
\* loaded.
C13_OneModeByPrecedence ==
    cmd # "load" =>
        /\ HelpFlag => ran \subseteq {"help"}
        /\ (~HelpFlag /\ DiffFlag) => ran \subseteq {"diff"}
        /\ (~HelpFlag /\ ~DiffFlag /\ CheckFlag) => ran \subseteq {"check-deps"}
        /\ (~HelpFlag /\ ~DiffFlag /\ ~CheckFlag) => ran \subseteq {"list"}
        /\ pc = "done" => Cardinality(ran) = 1
        /\ ("check-deps" \in ran /\ pc = "done") =>
              /\ result # <<>>
              /\ exitCode = 1 <=> ~result[1].isValid
        /\ ("diff" \in ran /\ ~localConfig.loaded) =>
              /\ pc = "done"
              /\ exitCode = 1
              /\ localRules = <<>> /\ functypeRules = <<>>
              /\ diffs = <<>> /\ profileIdx = 0

C13_Witness ==
    /\ {"--diff", "--check-deps"} \subseteq args
    /\ ~HelpFlag
    /\ pc = "done"
    /\ ran = {"diff"}
    /\ ~localConfig.loaded
    /\ exitCode = 1

=============================================================================
